---- MODULE Spec2Model ----
(***************************************************************************)
(* Model of the POST /compress pipeline of src/index.js: multer upload,     *)
(* extension dispatch, the four transform strategies, res.download and the  *)
(* unlink-based cleanup, for NumReq requests interleaved at their awaits.   *)
(* File names are sequences of one-character strings.                       *)
(***************************************************************************)
EXTENDS Naturals, Sequences, FiniteSets, TLC

\* Number of requests in flight together.
NumReq == 2

\* Number of environment faults (failing reads, writes, unlinks, transfers)
\* injected into one run.
MaxFaults == 1

Req == 1 .. NumReq

----------------------------------------------------------------------------
\* Strings

\* String.prototype.toLowerCase, one character.
LowerChar(c) ==
    CASE c = "A" -> "a" [] c = "B" -> "b" [] c = "C" -> "c" [] c = "D" -> "d"
      [] c = "E" -> "e" [] c = "F" -> "f" [] c = "G" -> "g" [] c = "I" -> "i"
      [] c = "J" -> "j" [] c = "L" -> "l" [] c = "N" -> "n" [] c = "O" -> "o"
      [] c = "P" -> "p" [] c = "R" -> "r" [] c = "S" -> "s" [] c = "T" -> "t"
      [] c = "W" -> "w" [] c = "X" -> "x" [] c = "Z" -> "z" [] c = "M" -> "m"
      [] OTHER -> c

toLowerCase(s) == [i \in DOMAIN s |-> LowerChar(s[i])]

\* Index of the last "." of s, 0 when there is none.
LastDot(s) ==
    LET dots == {i \in DOMAIN s : s[i] = "."}
    IN  IF dots = {} THEN 0 ELSE CHOOSE i \in dots : \A j \in dots : j <= i

\* path.extname: from the last "." to the end; empty when there is no ".",
\* when the only "." is the first character, or for "..".
extname(s) ==
    LET d == LastDot(s)
    IN  IF d = 0 \/ d = 1 \/ s = <<".", ".">>
        THEN <<>>
        ELSE SubSeq(s, d, Len(s))

EndsWith(s, suffix) ==
    /\ Len(suffix) <= Len(s)
    /\ SubSeq(s, Len(s) - Len(suffix) + 1, Len(s)) = suffix

\* path.basename(s, suffix): s without a trailing suffix (compared case
\* sensitively); a suffix equal to the whole name leaves the empty string.
basename(s, suffix) ==
    IF suffix # <<>> /\ EndsWith(s, suffix)
    THEN SubSeq(s, 1, Len(s) - Len(suffix))
    ELSE s

----------------------------------------------------------------------------
\* Classification (supportedTypes and the if/else chain)

TextExts  == {<<".", "t", "x", "t">>, <<".", "l", "o", "g">>,
              <<".", "j", "s", "o", "n">>}
ImageExts == {<<".", "j", "p", "g">>, <<".", "j", "p", "e", "g">>,
              <<".", "p", "n", "g">>, <<".", "w", "e", "b", "p">>}
PdfExts   == {<<".", "p", "d", "f">>}
WordExts  == {<<".", "d", "o", "c">>, <<".", "d", "o", "c", "x">>}
OtherExts == {<<".", "z", "i", "p">>, <<".", "g", "z">>,
              <<".", "r", "a", "r">>, <<".", "7", "z">>}

supportedTypes ==
    [text |-> TextExts, image |-> ImageExts, pdf |-> PdfExts,
     word |-> WordExts, other |-> OtherExts]

isSupported(fileExt) ==
    fileExt \in UNION {supportedTypes[k] : k \in DOMAIN supportedTypes}

\* The branch of the if/else chain taken for fileExt.
Branch(fileExt) ==
    IF ~ isSupported(fileExt) THEN "unsupported"
    ELSE IF fileExt \in supportedTypes.text THEN "text"
    ELSE IF fileExt \in supportedTypes.image THEN "image"
    ELSE IF fileExt \in supportedTypes.pdf THEN "pdf"
    ELSE IF fileExt \in supportedTypes.word \/ fileExt \in supportedTypes.other
         THEN "zip"
    ELSE "none"

\* Variant: the extension compared as spelled.
fileExtAsSpelled(originalname) == extname(originalname)

fileExtOf(originalname) == toLowerCase(extname(originalname))

fileNameOf(originalname) == basename(originalname, fileExtOf(originalname))

Compressed == <<"c", "o", "m", "p", "r", "e", "s", "s", "e", "d", "-">>

\* compressedFilePath inside outputDir, per branch.
compressedFilePath(originalname) ==
    LET b == Branch(fileExtOf(originalname))
    IN  IF b = "text" THEN fileNameOf(originalname) \o <<".", "g", "z">>
        ELSE IF b = "zip" THEN fileNameOf(originalname) \o <<".", "z", "i", "p">>
        ELSE Compressed \o originalname

\* Variant: the artifact's own file name offered to the client.
downloadNameOfArtifact(originalname) == compressedFilePath(originalname)

\* The name res.download suggests to the client.
downloadName(originalname) == Compressed \o originalname

----------------------------------------------------------------------------
\* Requests

\* multer's limits.fileSize.
FileSizeLimit == 20 * 1024 * 1024

NoFile ==
    [originalname |-> <<>>, size |-> 0, magic |-> FALSE, parses |-> FALSE,
     present |-> FALSE]

\* An uploaded file: its original name, its size in bytes and whether its
\* content starts with %PDF-.
File(name, size, magic) ==
    [originalname |-> name, size |-> size, magic |-> magic, parses |-> magic,
     present |-> TRUE]

\* A file that starts with %PDF- and is no PDF document after that.
Corrupt(file) == [file EXCEPT !.parses = FALSE]

ReportTxt == <<"r", "e", "p", ".", "t", "x", "t">>
DocPdf    == <<"a", ".", "p", "d", "f">>
ToolExe   == <<"a", ".", "e", "x", "e">>

\* The uploads of the concurrent specification: request 1 carries any of
\* Uploads, every other request a text file named as the first text file.
Uploads ==
    { NoFile,
      File(ReportTxt, 1, FALSE), File(ReportTxt, FileSizeLimit + 1, FALSE),
      File(DocPdf, 1, TRUE), File(DocPdf, 1, FALSE),
      Corrupt(File(DocPdf, 1, TRUE)),
      File(ToolExe, 1, FALSE) }

Assignments ==
    {[r \in Req |-> IF r = 1 THEN u ELSE File(ReportTxt, 1, FALSE)] :
        u \in Uploads}

\* A file's content: the requests whose bytes it holds and whether it was
\* written to its end.
NoBody == [w |-> {}, full |-> FALSE]

VARIABLES
    pc,       \* where each request's handler is suspended
    upload,   \* the file each request carries
    src,      \* whether req.file.path exists in uploads/
    files,    \* artifact paths present in uploads/ -> the inode they name
    inode,    \* an inode, named by the request that created it
    wfd,      \* the inode each request's artifact writer holds open (0: none)
    rfd,      \* the inode each request's res.download reads (0: none)
    res,      \* what each request's response carries so far
    log,      \* per request: what its handler has done
    crashed,  \* an uncaught exception has ended the process
    faults    \* environment faults injected so far

vars == <<pc, upload, src, files, inode, wfd, rfd, res, log, crashed, faults>>

\* A message: its text and the file path it quotes (<<>>: none).
Msg(text, path) == [text |-> text, path |-> path]

NoMsg == Msg("", <<>>)

NoRes ==
    [status |-> 0, kind |-> "none", error |-> "", details |-> NoMsg,
     filename |-> <<>>, body |-> NoBody, ended |-> FALSE, sends |-> 0]

Json(status, error, details) ==
    [status |-> status, kind |-> "json", error |-> error, details |-> details,
     filename |-> <<>>, body |-> NoBody, ended |-> TRUE, sends |-> 0]

\* Response rec goes out on r's connection, after whatever went out before.
Sent(r, rec) == [rec EXCEPT !.sends = res[r].sends + 1]

NoLog ==
    [srcUnlinks |-> 0, artUnlinks |-> 0, strategy |-> "none", branch |-> "none",
     opened |-> FALSE, written |-> FALSE, failed |-> "none", err |-> NoMsg,
     transfer |-> "none", artCode |-> "none", unlinkErr |-> FALSE]

InitWith(assignments) ==
    /\ pc = [r \in Req |-> "recv"]
    /\ upload \in assignments
    /\ src = [r \in Req |-> FALSE]
    /\ files = <<>>
    /\ inode = [r \in Req |-> NoBody]
    /\ wfd = [r \in Req |-> 0]
    /\ rfd = [r \in Req |-> 0]
    /\ res = [r \in Req |-> NoRes]
    /\ log = [r \in Req |-> NoLog]
    /\ crashed = FALSE
    /\ faults = 0

Init == InitWith(Assignments)

\* An operation's outcome ok costs one fault when it is a failure.
Outcome(ok) ==
    /\ ~ ok => faults < MaxFaults
    /\ faults' = IF ok THEN faults ELSE faults + 1

Path(r) == compressedFilePath(upload[r].originalname)

Exists(p) == p \in DOMAIN files

\* fs.unlink of an artifact path: the name goes, open descriptors keep the inode.
Unlinked(p) == [q \in DOMAIN files \ {p} |-> files[q]]

\* fs.unlink(p) on directory fs: ENOENT when p is absent, another error when
\* the operation fails, else p is removed.
fsUnlink(fs, p, fail) ==
    IF p \notin DOMAIN fs THEN [files |-> fs, code |-> "ENOENT"]
    ELSE IF fail THEN [files |-> fs, code |-> "EIO"]
    ELSE [files |-> [q \in DOMAIN fs \ {p} |-> fs[q]], code |-> "none"]

\* Variant: every error of fs.unlink is reported, ENOENT too.
safeUnlinkStrict(fs, p, fail) ==
    LET u == fsUnlink(fs, p, fail)
    IN  [files |-> u.files, logged |-> u.code # "none", thrown |-> FALSE]

\* safeUnlink(p): fs.unlink in a try; ENOENT is ignored, any other error is
\* logged, nothing is thrown.
safeUnlink(fs, p, fail) ==
    LET u == fsUnlink(fs, p, fail)
    IN  [files |-> u.files, logged |-> u.code \notin {"none", "ENOENT"},
         thrown |-> FALSE]

\* The file system frees an inode that no name and no open descriptor refers to.
Freed(ino, fs, w, rd) ==
    [i \in Req |->
        IF \/ \E p \in DOMAIN fs : fs[p] = i
           \/ \E r \in Req : w[r] = i \/ rd[r] = i
        THEN ino[i] ELSE NoBody]

\* app.post("/compress", upload.single("file"), handler), up to the handler's
\* first await. multer stores the file under a fresh random name and calls the
\* handler; a file over limits.fileSize is removed again and the error goes to
\* express's default error handler, as index.js registers none.
Compress(r) ==
    /\ ~ crashed
    /\ pc[r] = "recv"
    /\ IF ~ upload[r].present
       THEN /\ res' = [res EXCEPT ![r] =
                         Sent(r, Json(400, "No file uploaded", NoMsg))]
            /\ pc' = [pc EXCEPT ![r] = "done"]
            /\ UNCHANGED <<src, log>>
       ELSE IF upload[r].size > FileSizeLimit
       THEN /\ res' = [res EXCEPT ![r] =
                         Sent(r, [NoRes EXCEPT
                                     !.status = 500, !.kind = "html",
                                     !.error = "MulterError: File too large",
                                     !.ended = TRUE])]
            /\ pc' = [pc EXCEPT ![r] = "done"]
            /\ UNCHANGED <<src, log>>
       ELSE LET b == Branch(fileExtOf(upload[r].originalname))
            IN  /\ b # "none"
                /\ src' = [src EXCEPT ![r] = TRUE]
                /\ log' = [log EXCEPT ![r].branch = b,
                                      ![r].strategy =
                                          IF b \in {"text", "image", "zip"}
                                          THEN b ELSE @]
                /\ pc' = [pc EXCEPT ![r] =
                            CASE b = "unsupported" -> "unsupUnlink"
                              [] b = "pdf" -> "pdfValidate"
                              [] OTHER -> "open"]
                /\ UNCHANGED res
    /\ UNCHANGED <<upload, files, inode, wfd, rfd, crashed, faults>>

\* Variant: a failing fs.unlink is thrown to the handler's catch.
safeUnlinkSrcThrows(r, ok, next) ==
    /\ Outcome(ok)
    /\ src' = [src EXCEPT ![r] = IF ok THEN FALSE ELSE @]
    /\ log' = [log EXCEPT ![r].srcUnlinks = @ + 1,
                          ![r].unlinkErr = @ \/ ~ ok,
                          ![r].failed = IF ok THEN @ ELSE "unlink",
                          ![r].err = IF ok THEN @
                                     ELSE Msg("EPERM: operation not permitted, unlink",
                                              <<>>)]
    /\ pc' = [pc EXCEPT ![r] = IF ok THEN next ELSE "respond500"]

\* safeUnlink(filePath): ok is whether fs.unlink succeeded or met ENOENT; any
\* other error is logged and swallowed, and the file stays.
safeUnlinkSrc(r, ok, next) ==
    /\ Outcome(ok)
    /\ src' = [src EXCEPT ![r] = IF ok THEN FALSE ELSE @]
    /\ log' = [log EXCEPT ![r].srcUnlinks = @ + 1,
                          ![r].unlinkErr = @ \/ ~ ok]
    /\ pc' = [pc EXCEPT ![r] = next]

\* Variant: the unsupported branch answers without deleting the source.
UnsupportedKeepsSource(r, ok) ==
    /\ ~ crashed
    /\ pc[r] = "unsupUnlink"
    /\ ok
    /\ pc' = [pc EXCEPT ![r] = "unsupRespond"]
    /\ UNCHANGED <<upload, src, files, inode, wfd, rfd, res, log, crashed, faults>>

UnsupportedUnlink(r, ok) ==
    /\ ~ crashed
    /\ pc[r] = "unsupUnlink"
    /\ safeUnlinkSrc(r, ok, "unsupRespond")
    /\ UNCHANGED <<upload, files, inode, wfd, rfd, res, crashed>>

UnsupportedRespond(r) ==
    /\ ~ crashed
    /\ pc[r] = "unsupRespond"
    /\ res' = [res EXCEPT ![r] =
                 Sent(r, Json(400, "Unsupported file type", NoMsg))]
    /\ pc' = [pc EXCEPT ![r] = "done"]
    /\ UNCHANGED <<upload, src, files, inode, wfd, rfd, log, crashed, faults>>

\* Variant: any file that can be read passes.
validatePDFReadable(magic, readOk) == readOk

\* validatePDF: the prefix test, false also when the read throws.
validatePDF(magic, readOk) == IF readOk THEN magic ELSE FALSE

PdfValidate(r, readOk) ==
    /\ ~ crashed
    /\ pc[r] = "pdfValidate"
    /\ Outcome(readOk)
    /\ pc' = [pc EXCEPT ![r] =
                IF validatePDF(upload[r].magic, readOk)
                THEN "pdfLoad" ELSE "pdfBadUnlink"]
    /\ log' = [log EXCEPT ![r].failed = IF readOk THEN @ ELSE "validate"]
    /\ UNCHANGED <<upload, src, files, inode, wfd, rfd, res, crashed>>

PdfInvalidUnlink(r, ok) ==
    /\ ~ crashed
    /\ pc[r] = "pdfBadUnlink"
    /\ safeUnlinkSrc(r, ok, "pdfBadRespond")
    /\ UNCHANGED <<upload, files, inode, wfd, rfd, res, crashed>>

\* Variant: the invalid-PDF answer lacks its return and the branch goes on.
PdfInvalidRespondGoesOn(r) ==
    /\ ~ crashed
    /\ pc[r] = "pdfBadRespond"
    /\ res' = [res EXCEPT ![r] =
                 Sent(r, Json(400, "Invalid PDF file",
                              Msg("The uploaded file is not a valid PDF document",
                                  <<>>)))]
    /\ pc' = [pc EXCEPT ![r] = "pdfLoad"]
    /\ UNCHANGED <<upload, src, files, inode, wfd, rfd, log, crashed, faults>>

PdfInvalidRespond(r) ==
    /\ ~ crashed
    /\ pc[r] = "pdfBadRespond"
    /\ res' = [res EXCEPT ![r] =
                 Sent(r, Json(400, "Invalid PDF file",
                              Msg("The uploaded file is not a valid PDF document",
                                  <<>>)))]
    /\ pc' = [pc EXCEPT ![r] = "done"]
    /\ UNCHANGED <<upload, src, files, inode, wfd, rfd, log, crashed, faults>>

\* fs.readFile, PDFDocument.load and pdfDoc.save. The parser throws on a file
\* that is no PDF document, and without ok on a document it cannot handle; its
\* message quotes no path.
PdfLoad(r, ok) ==
    /\ ~ crashed
    /\ pc[r] = "pdfLoad"
    /\ Outcome(ok)
    /\ LET loaded == ok /\ upload[r].parses
       IN  /\ log' = [log EXCEPT
                        ![r].strategy = "pdf",
                        ![r].failed = IF loaded THEN @ ELSE "before",
                        ![r].err = IF loaded THEN @
                                   ELSE Msg("Failed to parse PDF document", <<>>)]
           /\ pc' = [pc EXCEPT ![r] = IF loaded THEN "open" ELSE "catch"]
    /\ UNCHANGED <<upload, src, files, inode, wfd, rfd, res, crashed>>

\* The error of a strategy that fails before its output exists: sharp reports
\* the input it cannot decode; the others fail to open compressedFilePath, and
\* Node's message for that quotes the path.
OpenError(r) ==
    IF log[r].strategy = "image"
    THEN Msg("Input file contains unsupported image format", <<>>)
    ELSE Msg("EACCES: permission denied, open", Path(r))

\* Variant: the writer is started and not awaited.
WriteOpenNotAwaited(r, ok) ==
    /\ ~ crashed
    /\ pc[r] = "open"
    /\ ok
    /\ LET p == Path(r)
           i == IF Exists(p) THEN files[p] ELSE r
       IN  /\ files' = IF Exists(p) THEN files ELSE files @@ (p :> r)
           /\ inode' = [inode EXCEPT ![i] = NoBody]
           /\ log' = [log EXCEPT ![r].opened = TRUE]
           /\ pc' = [pc EXCEPT ![r] = "unlinkSrc"]
    /\ UNCHANGED <<upload, src, wfd, rfd, res, crashed, faults>>

\* The artifact is opened for writing at compressedFilePath (createWriteStream,
\* sharp's toFile, fs.writeFile): an existing file is truncated, a missing one
\* created. Without ok the strategy fails before any output exists.
WriteOpen(r, ok) ==
    /\ ~ crashed
    /\ pc[r] = "open"
    /\ Outcome(ok)
    /\ IF ok
       THEN LET p == Path(r)
                i == IF Exists(p) THEN files[p] ELSE r
            IN  /\ files' = IF Exists(p) THEN files ELSE files @@ (p :> r)
                /\ inode' = [inode EXCEPT ![i] = NoBody]
                /\ wfd' = [wfd EXCEPT ![r] = i]
                /\ log' = [log EXCEPT ![r].opened = TRUE]
                /\ pc' = [pc EXCEPT ![r] = "writing"]
       ELSE /\ log' = [log EXCEPT ![r].failed = "before",
                                  ![r].err = OpenError(r)]
            /\ pc' = [pc EXCEPT ![r] = "catch"]
            /\ UNCHANGED <<files, inode, wfd>>
    /\ UNCHANGED <<upload, src, rfd, res, crashed>>

\* The writer finishes ("finish", "close", or the awaited write resolves).
WriteFinish(r) ==
    /\ ~ crashed
    /\ pc[r] = "writing"
    /\ wfd' = [wfd EXCEPT ![r] = 0]
    /\ inode' = Freed([inode EXCEPT ![wfd[r]] =
                                       [w |-> @.w \cup {r}, full |-> TRUE]],
                      files, wfd', rfd)
    /\ log' = [log EXCEPT ![r].written = TRUE]
    /\ pc' = [pc EXCEPT ![r] = "unlinkSrc"]
    /\ UNCHANGED <<upload, src, files, rfd, res, crashed, faults>>

\* The writer fails after the artifact was opened; bytes may have been written.
WriteFail(r, partial) ==
    /\ ~ crashed
    /\ pc[r] = "writing"
    /\ Outcome(FALSE)
    /\ wfd' = [wfd EXCEPT ![r] = 0]
    /\ inode' = Freed([inode EXCEPT ![wfd[r]].w =
                                       IF partial THEN @ \cup {r} ELSE @],
                      files, wfd', rfd)
    /\ log' = [log EXCEPT ![r].failed = "after",
                          ![r].err = Msg("ENOSPC: no space left on device, write",
                                         <<>>)]
    /\ pc' = [pc EXCEPT ![r] = "catch"]
    /\ UNCHANGED <<upload, src, files, rfd, res, crashed>>

\* An "error" event nobody listens for is thrown as an uncaught exception. The
\* text branch listens on writeStream only, not on readStream or gzip; the zip
\* branch never listens on archive, and on output only after archive.finalize()
\* has resolved.
UncaughtStreamError(r) ==
    /\ ~ crashed
    /\ pc[r] \in {"open", "writing"}
    /\ log[r].strategy \in {"text", "zip"}
    /\ Outcome(FALSE)
    /\ crashed' = TRUE
    /\ log' = [log EXCEPT ![r].failed = "uncaught"]
    /\ UNCHANGED <<pc, upload, src, files, inode, wfd, rfd, res>>

\* Variant: the source is left for later and the download starts at once.
SourceKeptForLater(r, ok) ==
    /\ ~ crashed
    /\ pc[r] = "unlinkSrc"
    /\ ok
    /\ pc' = [pc EXCEPT ![r] = "download"]
    /\ UNCHANGED <<upload, src, files, inode, wfd, rfd, res, log, crashed, faults>>

\* await safeUnlink(filePath) after the transform.
SourceUnlink(r, ok) ==
    /\ ~ crashed
    /\ pc[r] = "unlinkSrc"
    /\ safeUnlinkSrc(r, ok, "download")
    /\ UNCHANGED <<upload, files, inode, wfd, rfd, res, crashed>>

\* res.download: a missing file ends the transfer before any header is sent and
\* the callback gets the error; otherwise status 200 and the attachment name
\* go out and the file is streamed.
DownloadStart(r) ==
    /\ ~ crashed
    /\ pc[r] = "download"
    /\ IF Exists(Path(r))
       THEN /\ res' = [res EXCEPT ![r] =
                         Sent(r, [NoRes EXCEPT
                                     !.status = 200, !.kind = "download",
                                     !.filename =
                                         downloadName(upload[r].originalname)])]
            /\ rfd' = [rfd EXCEPT ![r] = files[Path(r)]]
            /\ pc' = [pc EXCEPT ![r] = "streaming"]
            /\ UNCHANGED log
       ELSE /\ log' = [log EXCEPT ![r].transfer = "missing"]
            /\ pc' = [pc EXCEPT ![r] = "cleanup"]
            /\ UNCHANGED <<res, rfd>>
    /\ UNCHANGED <<upload, src, files, inode, wfd, crashed, faults>>

TransferEnds == {"end", "aborted", "error"}

\* The transfer ends: the body was fully sent, the client disconnected, or the
\* stream failed; the completion callback is called once with the outcome.
DownloadEnd(r, how) ==
    /\ ~ crashed
    /\ pc[r] = "streaming"
    /\ Outcome(how = "end")
    /\ res' = [res EXCEPT ![r].ended = TRUE,
                          ![r].body = IF how = "end"
                                      THEN inode[rfd[r]]
                                      ELSE [inode[rfd[r]] EXCEPT !.full = FALSE]]
    /\ rfd' = [rfd EXCEPT ![r] = 0]
    /\ inode' = Freed(inode, files, wfd, rfd')
    /\ log' = [log EXCEPT ![r].transfer = how]
    /\ pc' = [pc EXCEPT ![r] = "cleanup"]
    /\ UNCHANGED <<upload, src, files, wfd, crashed>>

\* Variant: the callback returns early when the transfer reported an error.
CallbackSkipsOnError(r, ok) ==
    /\ ~ crashed
    /\ pc[r] = "cleanup"
    /\ Outcome(ok)
    /\ LET run == log[r].transfer = "end"
       IN  /\ files' = IF run /\ ok /\ Exists(Path(r))
                       THEN Unlinked(Path(r)) ELSE files
           /\ log' = [log EXCEPT ![r].artUnlinks = IF run THEN @ + 1 ELSE @,
                                 ![r].unlinkErr = @ \/ (run /\ ~ ok)]
    /\ inode' = Freed(inode, files', wfd, rfd)
    /\ pc' = [pc EXCEPT ![r] = "done"]
    /\ UNCHANGED <<upload, src, wfd, rfd, res, crashed>>

\* The completion callback: safeUnlink(compressedFilePath), whatever the outcome.
Callback(r, ok) ==
    /\ ~ crashed
    /\ pc[r] = "cleanup"
    /\ Outcome(ok)
    /\ files' = safeUnlink(files, Path(r), ~ ok).files
    /\ inode' = Freed(inode, files', wfd, rfd)
    /\ log' = [log EXCEPT ![r].artUnlinks = @ + 1,
                          ![r].artCode = fsUnlink(files, Path(r), ~ ok).code,
                          ![r].unlinkErr =
                              @ \/ safeUnlink(files, Path(r), ~ ok).logged]
    /\ pc' = [pc EXCEPT ![r] = "done"]
    /\ UNCHANGED <<upload, src, wfd, rfd, res, crashed>>

\* catch: safeUnlink(req.file?.path) ...
CatchUnlink(r, ok) ==
    /\ ~ crashed
    /\ pc[r] = "catch"
    /\ safeUnlinkSrc(r, ok, "respond500")
    /\ UNCHANGED <<upload, files, inode, wfd, rfd, res, crashed>>

\* ... then res.status(500).json(...).
CatchRespond(r) ==
    /\ ~ crashed
    /\ pc[r] = "respond500"
    /\ res' = [res EXCEPT ![r] =
                 Sent(r, Json(500, "Compression failed", log[r].err))]
    /\ pc' = [pc EXCEPT ![r] = "done"]
    /\ UNCHANGED <<upload, src, files, inode, wfd, rfd, log, crashed, faults>>

\* The steps of request r.
Step(r) ==
        \/ Compress(r)
        \/ \E ok \in BOOLEAN : UnsupportedUnlink(r, ok)
        \/ UnsupportedRespond(r)
        \/ \E readOk \in BOOLEAN : PdfValidate(r, readOk)
        \/ \E ok \in BOOLEAN : PdfInvalidUnlink(r, ok)
        \/ PdfInvalidRespond(r)
        \/ \E ok \in BOOLEAN : PdfLoad(r, ok)
        \/ \E ok \in BOOLEAN : WriteOpen(r, ok)
        \/ WriteFinish(r)
        \/ \E partial \in BOOLEAN : WriteFail(r, partial)
        \/ UncaughtStreamError(r)
        \/ \E ok \in BOOLEAN : SourceUnlink(r, ok)
        \/ DownloadStart(r)
        \/ \E how \in TransferEnds : DownloadEnd(r, how)
        \/ \E ok \in BOOLEAN : Callback(r, ok)
        \/ \E ok \in BOOLEAN : CatchUnlink(r, ok)
        \/ CatchRespond(r)

Next == \E r \in Req : Step(r)

Spec == Init /\ [][Next]_vars

\* The event loop runs every callback that is ready and every pending I/O
\* operation completes, with one of its outcomes.
FairSpec == Spec /\ \A r \in Req : WF_vars(Step(r))

----------------------------------------------------------------------------
\* One request with a file name drawn from a large set, beside requests that
\* carry no file.

UpperChar(c) ==
    CASE c = "a" -> "A" [] c = "b" -> "B" [] c = "c" -> "C" [] c = "d" -> "D"
      [] c = "e" -> "E" [] c = "f" -> "F" [] c = "g" -> "G" [] c = "i" -> "I"
      [] c = "j" -> "J" [] c = "l" -> "L" [] c = "n" -> "N" [] c = "o" -> "O"
      [] c = "p" -> "P" [] c = "r" -> "R" [] c = "s" -> "S" [] c = "t" -> "T"
      [] c = "w" -> "W" [] c = "x" -> "X" [] c = "z" -> "Z"
      [] OTHER -> c

RECURSIVE Spellings(_)
\* Every spelling of s in upper and lower case letters.
Spellings(s) ==
    IF s = <<>> THEN {<<>>}
    ELSE {<<c>> \o t : c \in {Head(s), UpperChar(Head(s))},
                       t \in Spellings(Tail(s))}

\* The extensions of each category, as the specification lists them.
ListedText    == {<<".", "t", "x", "t">>, <<".", "l", "o", "g">>, <<".", "j", "s", "o", "n">>}
ListedImage   == {<<".", "j", "p", "g">>, <<".", "j", "p", "e", "g">>, <<".", "p", "n", "g">>, <<".", "w", "e", "b", "p">>}
ListedPdf     == {<<".", "p", "d", "f">>}
ListedZip     == {<<".", "d", "o", "c">>, <<".", "d", "o", "c", "x">>, <<".", "z", "i", "p">>, <<".", "g", "z">>, <<".", "r", "a", "r">>, <<".", "7", "z">>}
\* Endings outside the lists.
Unlisted      == {<<".", "e", "x", "e">>, <<".", "t", "x">>, <<".", "t", "x", "t", "x">>, <<".", "g", "z", "i", "p">>, <<".", "p", "d">>, <<".">>, <<"t", "x", "t">>, <<>>}

Bases == {<<"a">>, <<"I", "M", "G">>, <<"a", ".", "b">>}

SpelledOf(exts) == UNION {Spellings(e) : e \in exts}

NamesOf(endings) == {b \o e : b \in Bases, e \in endings}

\* Names made of an ending alone.
Bare == SpelledOf(ListedText \cup ListedPdf) \cup {<<".", ".">>, <<>>}

AllNames ==
    NamesOf(SpelledOf(ListedText \cup ListedImage \cup ListedPdf \cup ListedZip))
        \cup NamesOf(Unlisted) \cup Bare

NameUploads ==
    {File(n, 1, TRUE) : n \in AllNames}
        \cup {File(n, 1, FALSE) : n \in NamesOf(SpelledOf(ListedPdf))}
        \cup {File(ReportTxt, FileSizeLimit, FALSE),
              File(ReportTxt, FileSizeLimit + 1, FALSE)}

InitNames ==
    InitWith({[r \in Req |-> IF r = 1 THEN u ELSE NoFile] : u \in NameUploads})

SpecNames == InitNames /\ [][Next]_vars

----------------------------------------------------------------------------
\* Properties

\* The handler has nothing left to do for r.
Over(r) == pc[r] = "done"

\* r's response has been sent to its end.
Finalized(r) == res[r].kind # "none" /\ res[r].ended

Accepted(r) == upload[r].present /\ upload[r].size <= FileSizeLimit

\* r carries a file its category can transform.
Sound(r) ==
    /\ Accepted(r)
    /\ Branch(fileExtOf(upload[r].originalname)) \in {"text", "image", "pdf", "zip"}
    /\ Branch(fileExtOf(upload[r].originalname)) = "pdf" =>
           upload[r].magic /\ upload[r].parses

\* C1: once a request is over, whatever its outcome, uploads/ holds neither its
\* uploaded source nor an artifact file it created (no unlink having failed).
C1_NoLeaks ==
    \A r \in Req :
        Over(r) /\ ~ log[r].unlinkErr =>
            /\ ~ src[r]
            /\ \A p \in DOMAIN files : files[p] # r

\* C2: two requests uploading the same original name, with no fault in the
\* run, both end with a complete download of the transform of their own upload.
C2_SameNameIndependent ==
    \A r1, r2 \in Req :
        /\ r1 # r2
        /\ Sound(r1) /\ Sound(r2)
        /\ upload[r1].originalname = upload[r2].originalname
        /\ Over(r1) /\ Over(r2)
        /\ faults = 0
        => /\ res[r1].kind = "download" /\ res[r1].status = 200
           /\ res[r1].body = [w |-> {r1}, full |-> TRUE]
           /\ res[r2].kind = "download" /\ res[r2].status = 200
           /\ res[r2].body = [w |-> {r2}, full |-> TRUE]

\* C3: a request that ended in failure has status 400 with a JSON error when it
\* had no file, an unsupported extension or a .pdf without %PDF-, status 500
\* with a JSON error when a read, write or transform step of its strategy
\* failed, and never status 200.
C3_FailureStatus ==
    \A r \in Req :
        Over(r) /\ upload[r].size <= FileSizeLimit =>
            /\ ~ upload[r].present =>
                   res[r].status = 400 /\ res[r].kind = "json" /\ res[r].error # ""
            /\ upload[r].present /\ log[r].branch = "unsupported" =>
                   res[r].status = 400 /\ res[r].kind = "json" /\ res[r].error # ""
            /\ log[r].branch = "pdf" /\ ~ upload[r].magic =>
                   res[r].status = 400 /\ res[r].kind = "json" /\ res[r].error # ""
            /\ log[r].failed # "none" =>
                   res[r].status = 500 /\ res[r].kind = "json" /\ res[r].error # ""

\* C4: the completion callback's deletion of the artifact runs only for a
\* request handed to res.download, never twice, and has run once when the
\* request is over, however the transfer ended.
C4_ArtifactDeletionOnce ==
    \A r \in Req :
        /\ log[r].artUnlinks <= 1
        /\ pc[r] \notin {"cleanup", "done"} => log[r].artUnlinks = 0
        /\ log[r].transfer = "none" => log[r].artUnlinks = 0
        /\ Over(r) /\ log[r].transfer # "none" => log[r].artUnlinks = 1

\* A transfer that ended by disconnect or failure was followed by the deletion.
C4_Witness ==
    \E r \in Req :
        /\ Over(r)
        /\ log[r].transfer \in {"aborted", "error"}
        /\ log[r].artUnlinks = 1

\* C5: a .pdf upload without the %PDF- prefix never reaches PDFDocument.load,
\* never opens an artifact, and its response, once sent, is 400 Invalid PDF.
C5_InvalidPdfRejected ==
    \A r \in Req :
        /\ Accepted(r)
        /\ fileExtOf(upload[r].originalname) = <<".", "p", "d", "f">>
        /\ ~ upload[r].magic
        => /\ log[r].strategy = "none"
           /\ ~ log[r].opened
           /\ pc[r] \in {"recv", "pdfValidate", "pdfBadUnlink", "pdfBadRespond",
                         "done"}
           /\ Over(r) => /\ res[r].status = 400
                         /\ res[r].kind = "json"
                         /\ res[r].error = "Invalid PDF file"

C5_Witness ==
    \E r \in Req :
        /\ upload[r].originalname = DocPdf
        /\ ~ upload[r].magic
        /\ Over(r)
        /\ res[r].error = "Invalid PDF file"

\* The branch the handler took for r, once it has classified r's file.
Took(r, b) == pc[r] # "recv" /\ Accepted(r) => log[r].branch = b

\* C6: a name made of a base and any upper/lower-case spelling of a listed
\* extension takes that list's branch; a name ending outside the lists is
\* unsupported; every accepted file is given a branch.
C6_Classification ==
    \A r \in Req :
        LET n == upload[r].originalname
        IN  /\ n \in NamesOf(SpelledOf(ListedText)) => Took(r, "text")
            /\ n \in NamesOf(SpelledOf(ListedImage)) => Took(r, "image")
            /\ n \in NamesOf(SpelledOf(ListedPdf)) => Took(r, "pdf")
            /\ n \in NamesOf(SpelledOf(ListedZip)) => Took(r, "zip")
            /\ n \in NamesOf(Unlisted) => Took(r, "unsupported")
            /\ pc[r] # "recv" /\ Accepted(r) =>
                   log[r].branch \in {"text", "image", "pdf", "zip", "unsupported"}

\* An upload spelled in capitals has been sent to the image branch.
C6_Witness ==
    \E r \in Req :
        /\ upload[r].originalname = <<"I", "M", "G", ".", "P", "N", "G">>
        /\ log[r].branch = "image"

\* C7: every download carries the attachment name compressed-<originalname>.
C7_DownloadName ==
    \A r \in Req :
        res[r].kind = "download" =>
            res[r].filename =
                <<"c", "o", "m", "p", "r", "e", "s", "s", "e", "d", "-">>
                    \o upload[r].originalname

\* A document in capitals, whose artifact is named otherwise, was downloaded.
C7_Witness ==
    \E r \in Req :
        /\ upload[r].originalname = <<"a", ".", "D", "O", "C", "X">>
        /\ res[r].kind = "download"
        /\ res[r].ended
        /\ Path(r) # res[r].filename

\* C8: an upload over the size limit is answered with status 400 and starts no
\* strategy.
C8_OversizedIs400 ==
    \A r \in Req :
        upload[r].present /\ upload[r].size > FileSizeLimit =>
            /\ log[r].strategy = "none"
            /\ Finalized(r) => res[r].status = 400

\* C9: when a strategy failed after opening its artifact and the 500 has been
\* sent, the source and the artifact are gone (no unlink having failed and no
\* other request having written an artifact).
C9_FailedTransformCleaned ==
    \A r \in Req :
        /\ log[r].failed = "after"
        /\ Finalized(r)
        /\ ~ log[r].unlinkErr
        /\ \A o \in Req \ {r} : ~ log[o].opened
        => /\ ~ src[r]
           /\ ~ Exists(Path(r))

\* C10: for an unsupported file safeUnlink has run on the source before the 400
\* is sent (the source is gone unless that unlink failed), no strategy has
\* started and no artifact was opened.
C10_UnsupportedDeletedFirst ==
    \A r \in Req :
        Accepted(r) /\ log[r].branch = "unsupported" =>
            /\ log[r].strategy = "none"
            /\ ~ log[r].opened
            /\ pc[r] \in {"unsupRespond", "done"} =>
                   /\ log[r].srcUnlinks = 1
                   /\ ~ log[r].unlinkErr => ~ src[r]
            /\ res[r].kind # "none" =>
                   /\ res[r].status = 400
                   /\ res[r].error = "Unsupported file type"
                   /\ log[r].srcUnlinks = 1
                   /\ ~ log[r].unlinkErr => ~ src[r]

C10_Witness ==
    \E r \in Req :
        /\ upload[r].originalname = ToolExe
        /\ res[r].error = "Unsupported file type"
        /\ ~ src[r]

\* C11: while a request streams its artifact, safeUnlink has already run on its
\* uploaded source: the source is gone unless that unlink failed.
C11_SourceGoneWhileStreaming ==
    \A r \in Req :
        pc[r] = "streaming" =>
            /\ log[r].srcUnlinks = 1
            /\ ~ log[r].unlinkErr => ~ src[r]

C11_Witness ==
    \E r \in Req :
        /\ pc[r] = "streaming"
        /\ res[r].status = 200
        /\ ~ src[r]

\* C12: two requests that both have an artifact in progress use different
\* artifact paths.
C12_DisjointPaths ==
    \A r1, r2 \in Req :
        /\ r1 # r2
        /\ log[r1].opened /\ ~ Over(r1)
        /\ log[r2].opened /\ ~ Over(r2)
        => Path(r1) # Path(r2)

\* C13: every request eventually has its response finalized.
C13_EventuallyFinalized == \A r \in Req : <>Finalized(r)

\* C14: no failure inside a strategy is thrown as an uncaught exception.
C14_NoUncaught ==
    /\ ~ crashed
    /\ \A r \in Req : log[r].failed # "uncaught"

\* The step that follows a deletion attempt made at step p of the handler.
AfterUnlink(p) ==
    CASE p = "unsupUnlink" -> "unsupRespond"
      [] p = "pdfBadUnlink" -> "pdfBadRespond"
      [] p = "unlinkSrc" -> "download"
      [] p = "catch" -> "respond500"
      [] p = "cleanup" -> "done"
      [] OTHER -> p

\* r attempts a deletion in this step.
Unlinks(r) ==
    \/ log'[r].srcUnlinks # log[r].srcUnlinks
    \/ log'[r].artUnlinks # log[r].artUnlinks

\* C15: a deletion attempt, failing or not, sends nothing, changes no response,
\* continues the handler at the same step, and leaves the recorded transform
\* error as it was; the 500 answer reports that transform error.
C15_UnlinkNeverChangesResponse ==
    /\ [](\A r \in Req :
            res[r].status = 500 /\ res[r].kind = "json" =>
                /\ log[r].failed \in {"before", "after"}
                /\ res[r].details = log[r].err)
    /\ [][\A r \in Req :
            Unlinks(r) =>
                /\ res' = res
                /\ pc'[r] = AfterUnlink(pc[r])
                /\ log'[r].failed = log[r].failed
                /\ log'[r].err = log[r].err]_vars

\* A request whose transform failed, and whose source then could not be
\* deleted, has been answered with the transform's error.
C15_Witness ==
    \E r \in Req :
        /\ log[r].unlinkErr
        /\ src[r]
        /\ log[r].failed = "before"
        /\ res[r].status = 500
        /\ res[r].details = log[r].err
        /\ res[r].details # NoMsg

\* C16: safeUnlink of an absent path changes nothing, logs nothing and throws
\* nothing, as when a completion callback finds its artifact gone; a second
\* safeUnlink of a path leaves what the first one left.
C16_UnlinkIdempotent ==
    /\ \A r \in Req : \A fail \in BOOLEAN :
           pc[r] = "cleanup" /\ ~ Exists(Path(r)) =>
               safeUnlink(files, Path(r), fail) =
                   [files |-> files, logged |-> FALSE, thrown |-> FALSE]
    /\ \A p \in DOMAIN files : \A fail \in BOOLEAN :
           LET once == safeUnlink(files, p, FALSE)
           IN  /\ ~ once.thrown
               /\ p \notin DOMAIN once.files
               /\ safeUnlink(once.files, p, fail) =
                      [files |-> once.files, logged |-> FALSE, thrown |-> FALSE]

\* A completion callback has unlinked an artifact path that was already absent.
C16_Witness ==
    \E r \in Req :
        /\ Over(r)
        /\ log[r].artUnlinks = 1
        /\ log[r].artCode = "ENOENT"
        /\ ~ log[r].unlinkErr

\* C17: the details of a 500 answer quote no path of the upload directory.
C17_NoPathInDetails ==
    \A r \in Req :
        res[r].status = 500 /\ res[r].kind = "json" => res[r].details.path = <<>>

\* C18: a name that is nothing but a listed extension, in any spelling, takes
\* that extension's branch.
C18_BareExtensionSupported ==
    \A r \in Req :
        LET n == upload[r].originalname
        IN  /\ n \in SpelledOf(ListedText) => Took(r, "text")
            /\ n \in SpelledOf(ListedPdf) => Took(r, "pdf")

\* C19: at most one response is sent on a request's connection.
C19_OneResponse == \A r \in Req : res[r].sends <= 1

\* A transfer that failed after it had started was followed by no second answer.
C19_Witness ==
    \E r \in Req :
        /\ Over(r)
        /\ log[r].transfer \in {"aborted", "error"}
        /\ res[r].kind = "download"
        /\ res[r].sends = 1

\* C20: a request streams only after its own transform was taken from a
\* supported branch, a PDF passed validation, nothing failed, and its writer
\* wrote the artifact to the end and closed it.
C20_StreamAfterTransform ==
    \A r \in Req :
        pc[r] = "streaming" \/ res[r].kind = "download" =>
            /\ log[r].branch \in {"text", "image", "pdf", "zip"}
            /\ log[r].branch = "pdf" => upload[r].magic
            /\ log[r].failed = "none"
            /\ log[r].opened /\ log[r].written
            /\ wfd[r] = 0

\* A validated PDF is being streamed after its artifact was written.
C20_Witness ==
    \E r \in Req :
        /\ pc[r] = "streaming"
        /\ log[r].branch = "pdf"
        /\ log[r].written

====
